---- MODULE Spec2Model ----
(***************************************************************************)
(* A model of src/graphics/gl_wrapper.rs: the Vao, BufferObject,           *)
(* VertexAttribute and ShaderProgram wrappers over the graphics driver.    *)
(*                                                                         *)
(* The driver is the record gl: its binding registers, its object tables,  *)
(* its name counters, and gl.calls, the driver calls issued by the wrapper *)
(* method that ran last.  Every driver entry point the source calls is an  *)
(* operator on that record, named as in the source; it records the call    *)
(* and acts on the state its arguments name.  Every wrapper method is one  *)
(* action, composed of the driver calls its body makes, in the order the   *)
(* body makes them.  op is the method that ran last, with its receiver,    *)
(* its arguments and its outcome.                                          *)
(*                                                                         *)
(* A Rust panic (panic!, unwrap, expect, an index out of bounds, a missing *)
(* HashMap key) ends the process: status becomes "panicked" and no action  *)
(* is enabled any more.                                                    *)
(*                                                                         *)
(* Spec is the whole module.  SpecBind, SpecStore, SpecAttribute and       *)
(* SpecShader each run the methods one group of properties is about.       *)
(***************************************************************************)
EXTENDS Integers, Sequences, FiniteSets, TLC

\* ------------------------------------------------------------ bounds
MaxVaos == 1
MaxBuffers == 2
MaxPrograms == 2
MaxLen == 2
MaxSlot == 1

\* ------------------------------------------------------------ domains
\* r#type of BufferObject::new: the buffer binding targets.
Targets == {"ARRAY_BUFFER", "ELEMENT_ARRAY_BUFFER"}
\* usage of BufferObject::new: the usage hints.
Usages == {"STATIC_DRAW", "DYNAMIC_DRAW"}
\* the size in bytes of one GLfloat, mem::size_of::<gl::types::GLfloat>()
SizeOfGLfloat == 4

\* The f32 slices a caller uploads, one of each length, elements by their
\* IEEE-754 bit pattern: << >>, <<1.0>>, <<1.0, 2.0>>, ...
\* (1.0 is 00 00 80 3f in memory, 2.0 is 00 00 00 40).
F32Arrays == {[i \in 1..k |-> 1065353216 + 8388608 * (i - 1)] : k \in 0..MaxLen}
\* The i32 slices a caller uploads, one of each length: << >>, <<-1>>,
\* <<-1, 258>>, ...  (-1 is ff ff ff ff in memory, 258 is 02 01 00 00).
I32Arrays == {[i \in 1..k |-> 259 * (i - 1) - 1] : k \in 0..MaxLen}

\* ------------------------------------------------------------ memory
\* The four bytes of a 32-bit element as they lie in memory (little endian,
\* two's complement): what the driver reads through the *const c_void.
Bytes32(x) ==
    << x % 256, (x \div 256) % 256, (x \div 65536) % 256, (x \div 16777216) % 256 >>

RECURSIVE BytesOf(_)
\* The memory of a slice: its elements' bytes, contiguous.
BytesOf(data) ==
    IF data = << >> THEN << >>
    ELSE Bytes32(Head(data)) \o BytesOf(Tail(data))

\* The unsigned 32-bit word stored in four bytes (an f32's bit pattern).
WordU(b) == b[1] + 256 * b[2] + 65536 * b[3] + 16777216 * b[4]
\* The signed 32-bit word stored in four bytes (an i32).
WordI(b) ==
    b[1] + 256 * b[2] + 65536 * b[3]
        + 16777216 * (IF b[4] >= 128 THEN b[4] - 256 ELSE b[4])

\* The i-th whole 32-bit element of a buffer's storage.
Element(bytes, i) == SubSeq(bytes, SizeOfGLfloat * (i - 1) + 1, SizeOfGLfloat * i)

\* A read-back of a buffer's storage as f32 elements (bit patterns).
ReadBackF32(bytes) ==
    [i \in 1..(Len(bytes) \div SizeOfGLfloat) |-> WordU(Element(bytes, i))]

\* A read-back of a buffer's storage as i32 elements.
ReadBackI32(bytes) ==
    [i \in 1..(Len(bytes) \div SizeOfGLfloat) |-> WordI(Element(bytes, i))]

\* ------------------------------------------------------------ driver
NoStore == [bytes |-> << >>, usage |-> "NONE"]
NoPointer == [size |-> 0, type |-> "NONE", normalized |-> FALSE, stride |-> 0,
              pointer |-> 0, buffer |-> 0]

\* The driver after context creation: nothing bound, no object named.
GlInit ==
    [ vertexArray |-> 0,
      buffer      |-> [t \in Targets |-> 0],
      program     |-> 0,
      nextVao     |-> 1,
      nextBuffer  |-> 1,
      nextObject  |-> 1,
      store       |-> [b \in 1..MaxBuffers |-> NoStore],
      enabled     |-> [s \in 0..MaxSlot |-> FALSE],
      pointer     |-> [s \in 0..MaxSlot |-> NoPointer],
      shaders     |-> << >>,
      programs    |-> << >>,
      calls       |-> << >> ]

Call(g, fn, args) == [g EXCEPT !.calls = Append(@, [fn |-> fn, a |-> args])]

\* A wrapper operation starts: the record of driver calls is that operation's.
Begin(g) == [g EXCEPT !.calls = << >>]

\* gl::GenVertexArrays(1, &mut id): id is g.nextVao.
GenVertexArrays(g) ==
    Call([g EXCEPT !.nextVao = @ + 1], "GenVertexArrays", << g.nextVao >>)

\* gl::BindVertexArray(id)
BindVertexArray(g, id) ==
    Call([g EXCEPT !.vertexArray = id], "BindVertexArray", << id >>)

\* gl::GenBuffers(1, &mut id): id is g.nextBuffer.
GenBuffers(g) ==
    Call([g EXCEPT !.nextBuffer = @ + 1], "GenBuffers", << g.nextBuffer >>)

\* gl::BindBuffer(target, id)
BindBuffer(g, target, id) ==
    Call([g EXCEPT !.buffer[target] = id], "BindBuffer", << target, id >>)

\* gl::BufferData(target, size, ptr, usage): the driver copies size bytes from
\* ptr into the store of the buffer bound to target; with no buffer bound
\* there it raises GL_INVALID_OPERATION and stores nothing.
BufferData(g, target, size, mem, usage) ==
    LET b == g.buffer[target]
        h == IF b = 0 THEN g
             ELSE [g EXCEPT !.store[b] =
                      [bytes |-> SubSeq(mem, 1, size), usage |-> usage]]
    IN  Call(h, "BufferData", << target, size, mem, usage >>)

\* gl::VertexAttribPointer(index, size, type, normalized, stride, pointer): the
\* slot records the layout and the buffer bound to ARRAY_BUFFER at the call.
VertexAttribPointer(g, index, size, type, normalized, stride, pointer) ==
    Call([g EXCEPT !.pointer[index] =
              [size |-> size, type |-> type, normalized |-> normalized,
               stride |-> stride, pointer |-> pointer,
               buffer |-> g.buffer["ARRAY_BUFFER"]]],
         "VertexAttribPointer", << index, size, type, normalized, stride, pointer >>)

\* gl::EnableVertexAttribArray(index)
EnableVertexAttribArray(g, index) ==
    Call([g EXCEPT !.enabled[index] = TRUE], "EnableVertexAttribArray", << index >>)

\* gl::DisableVertexAttribArray(index)
DisableVertexAttribArray(g, index) ==
    Call([g EXCEPT !.enabled[index] = FALSE], "DisableVertexAttribArray", << index >>)

\* f with key k set to v (a HashMap insert, a driver table entry).
Insert(f, k, v) == [x \in DOMAIN f \cup {k} |-> IF x = k THEN v ELSE f[x]]
\* f without key k.
Remove(f, k) == [x \in DOMAIN f \ {k} |-> f[x]]

\* gl::CreateShader(stage): the new name is g.nextObject.
CreateShader(g, stage) ==
    Call([g EXCEPT !.nextObject = @ + 1,
                   !.shaders = Insert(@, g.nextObject,
                        [stage |-> stage, source |-> "", compiled |-> FALSE,
                         deleted |-> FALSE])],
         "CreateShader", << stage, g.nextObject >>)

\* gl::ShaderSource(shader, 1, &src, null)
ShaderSource(g, shader, src) ==
    Call([g EXCEPT !.shaders[shader].source = src], "ShaderSource", << shader, src >>)

\* gl::CompileShader(shader): the compile status is the driver's; only source
\* text that is a valid shader compiles.
CompileShader(g, shader) ==
    Call([g EXCEPT !.shaders[shader].compiled = (g.shaders[shader].source = "good")],
         "CompileShader", << shader >>)

\* gl::CreateProgram(): the new name is g.nextObject (one name space with shaders).
CreateProgram(g) ==
    Call([g EXCEPT !.nextObject = @ + 1,
                   !.programs = Insert(@, g.nextObject,
                        [attached |-> {}, linked |-> FALSE,
                         uniforms |-> [n \in {} |-> -1]])],
         "CreateProgram", << g.nextObject >>)

\* gl::AttachShader(program, shader)
AttachShader(g, program, shader) ==
    Call([g EXCEPT !.programs[program].attached = @ \cup {shader}],
         "AttachShader", << program, shader >>)

\* gl::LinkProgram(program): links only when every attached stage compiled and
\* the driver's linker accepts them (linkOk); a linked program has its active
\* uniforms at the locations the driver assigned (utab).
LinkProgram(g, program, linkOk, utab) ==
    LET ok == linkOk /\ \A s \in g.programs[program].attached : g.shaders[s].compiled
    IN  Call([g EXCEPT !.programs[program].linked = ok,
                       !.programs[program].uniforms =
                            IF ok THEN utab ELSE [n \in {} |-> -1]],
             "LinkProgram", << program >>)

\* gl::DeleteShader(shader): a shader attached to a program is only flagged and
\* lives on until detached; an unattached one is freed.
DeleteShader(g, shader) ==
    LET attached == \E p \in DOMAIN g.programs : shader \in g.programs[p].attached
    IN  Call(IF attached
             THEN [g EXCEPT !.shaders[shader].deleted = TRUE]
             ELSE [g EXCEPT !.shaders = Remove(@, shader)],
             "DeleteShader", << shader >>)

\* gl::UseProgram(program)
UseProgram(g, program) ==
    Call([g EXCEPT !.program = program], "UseProgram", << program >>)

\* The value gl::GetUniformLocation(program, name) returns: -1 unless name is
\* an active uniform of a linked program.
UniformLocation(g, program, name) ==
    IF name \in DOMAIN g.programs[program].uniforms
    THEN g.programs[program].uniforms[name]
    ELSE -1

\* gl::GetUniformLocation(program, name): a query, the driver is unchanged.
GetUniformLocation(g, program, name) ==
    Call(g, "GetUniformLocation", << program, name >>)

\* gl::UniformMatrix4fv(location, count, transpose, value): the call as the
\* driver receives it.  The uniform's value inside the driver is read by no
\* operation of the wrappers and is not part of the record.
UniformMatrix4fv(g, location, count, transpose, value) ==
    Call(g, "UniformMatrix4fv", << location, count, transpose, value >>)

\* ------------------------------------------------------------ state
VARIABLES
    gl,          \* the driver
    vaos,        \* the Vao values constructed
    buffers,     \* the BufferObject values constructed
    attributes,  \* the VertexAttribute values constructed
    programs,    \* program_handle -> uniform_ids of ShaderProgram values
    op,          \* the wrapper operation that ran last
    status       \* "running" | "panicked"

vars == << gl, vaos, buffers, attributes, programs, op, status >>

NoOp == [name |-> "none", self |-> 0, arg |-> 0, res |-> "ok"]
Op(name, self, arg, res) == [name |-> name, self |-> self, arg |-> arg, res |-> res]

Init ==
    /\ gl = GlInit
    /\ vaos = {}
    /\ buffers = {}
    /\ attributes = {}
    /\ programs = << >>
    /\ op = NoOp
    /\ status = "running"

\* A panic unwinds out of the operation: the process ends.
Panic(name, self, arg, msg) ==
    /\ op' = Op(name, self, arg, msg)
    /\ status' = "panicked"

Return(name, self, arg) ==
    /\ op' = Op(name, self, arg, "ok")
    /\ status' = status

\* ------------------------------------------------------------ Vao
VaoNew ==
    /\ status = "running"
    /\ gl.nextVao <= MaxVaos
    /\ LET g == GenVertexArrays(Begin(gl))
           v == [id |-> gl.nextVao]
       IN  /\ gl' = g
           /\ vaos' = vaos \cup {v}
           /\ Return("Vao::new", v, 0)
    /\ UNCHANGED << buffers, attributes, programs >>

VaoBind(v) ==
    /\ status = "running"
    /\ gl' = BindVertexArray(Begin(gl), v.id)
    /\ Return("Vao::bind", v, 0)
    /\ UNCHANGED << vaos, buffers, attributes, programs >>

\* VaoUnbind with the bind call of Vao::bind pasted in: binds self.id.
VaoUnbindSelf(v) ==
    /\ status = "running"
    /\ gl' = BindVertexArray(Begin(gl), v.id)
    /\ Return("Vao::unbind", v, 0)
    /\ UNCHANGED << vaos, buffers, attributes, programs >>

VaoUnbind(v) ==
    /\ status = "running"
    /\ gl' = BindVertexArray(Begin(gl), 0)
    /\ Return("Vao::unbind", v, 0)
    /\ UNCHANGED << vaos, buffers, attributes, programs >>

\* ------------------------------------------------------------ BufferObject
BufferNew(type, usage) ==
    /\ status = "running"
    /\ gl.nextBuffer <= MaxBuffers
    /\ LET g == GenBuffers(Begin(gl))
           b == [id |-> gl.nextBuffer, type |-> type, usage |-> usage]
       IN  /\ gl' = g
           /\ buffers' = buffers \cup {b}
           /\ Return("BufferObject::new", b, 0)
    /\ UNCHANGED << vaos, attributes, programs >>

\* BufferBind with the target hard-wired instead of self.r#type.
BufferBindArray(b) ==
    /\ status = "running"
    /\ gl' = BindBuffer(Begin(gl), "ARRAY_BUFFER", b.id)
    /\ Return("BufferObject::bind", b, 0)
    /\ UNCHANGED << vaos, buffers, attributes, programs >>

BufferBind(b) ==
    /\ status = "running"
    /\ gl' = BindBuffer(Begin(gl), b.type, b.id)
    /\ Return("BufferObject::bind", b, 0)
    /\ UNCHANGED << vaos, buffers, attributes, programs >>

BufferUnbind(b) ==
    /\ status = "running"
    /\ gl' = BindBuffer(Begin(gl), b.type, 0)
    /\ Return("BufferObject::unbind", b, 0)
    /\ UNCHANGED << vaos, buffers, attributes, programs >>

\* StoreData passing the element count as the size in bytes.
StoreDataElementCount(name, b, data) ==
    /\ status = "running"
    /\ IF Len(data) = 0
       THEN /\ gl' = Begin(gl)
            /\ Panic(name, b, data, "index out of bounds")
       ELSE /\ gl' = BufferData(Begin(gl), b.type, Len(data), BytesOf(data), b.usage)
            /\ Return(name, b, data)
    /\ UNCHANGED << vaos, buffers, attributes, programs >>

\* StoreData taking the pointer without indexing (data.as_ptr()): an empty
\* slice reaches the driver as a zero-sized upload.
StoreDataUnchecked(name, b, data) ==
    /\ status = "running"
    /\ gl' = BufferData(Begin(gl), b.type, Len(data) * SizeOfGLfloat,
                        BytesOf(data), b.usage)
    /\ Return(name, b, data)
    /\ UNCHANGED << vaos, buffers, attributes, programs >>

\* StoreData binding self before the upload.
StoreDataBindFirst(name, b, data) ==
    /\ status = "running"
    /\ IF Len(data) = 0
       THEN /\ gl' = Begin(gl)
            /\ Panic(name, b, data, "index out of bounds")
       ELSE /\ gl' = BufferData(BindBuffer(Begin(gl), b.type, b.id), b.type,
                                Len(data) * SizeOfGLfloat, BytesOf(data), b.usage)
            /\ Return(name, b, data)
    /\ UNCHANGED << vaos, buffers, attributes, programs >>

\* The arguments of gl::BufferData are evaluated left to right; &data[0] is a
\* bounds-checked index, which panics on an empty slice before the call.
StoreData(name, b, data) ==
    /\ status = "running"
    /\ IF Len(data) = 0
       THEN /\ gl' = Begin(gl)
            /\ Panic(name, b, data, "index out of bounds")
       ELSE /\ gl' = BufferData(Begin(gl), b.type, Len(data) * SizeOfGLfloat,
                                BytesOf(data), b.usage)
            /\ Return(name, b, data)
    /\ UNCHANGED << vaos, buffers, attributes, programs >>

StoreF32Data(b, data) == StoreData("store_f32_data", b, data)

StoreI32Data(b, data) == StoreData("store_i32_data", b, data)

\* ------------------------------------------------------------ VertexAttribute
\* AttributeNew that also enables the slot it declares.
AttributeNewEnabled(index, size, type, normalized, stride, pointer) ==
    /\ status = "running"
    /\ gl' = EnableVertexAttribArray(
                 VertexAttribPointer(Begin(gl), index, size, type, normalized, stride, pointer),
                 index)
    /\ attributes' = attributes \cup {[index |-> index]}
    /\ Return("VertexAttribute::new", [index |-> index],
              << size, type, normalized, stride, pointer >>)
    /\ UNCHANGED << vaos, buffers, programs >>

AttributeNew(index, size, type, normalized, stride, pointer) ==
    /\ status = "running"
    /\ gl' = VertexAttribPointer(Begin(gl), index, size, type, normalized, stride, pointer)
    /\ attributes' = attributes \cup {[index |-> index]}
    /\ Return("VertexAttribute::new", [index |-> index],
              << size, type, normalized, stride, pointer >>)
    /\ UNCHANGED << vaos, buffers, programs >>

AttributeEnable(a) ==
    /\ status = "running"
    /\ gl' = EnableVertexAttribArray(Begin(gl), a.index)
    /\ Return("VertexAttribute::enable", a, 0)
    /\ UNCHANGED << vaos, buffers, attributes, programs >>

AttributeDisable(a) ==
    /\ status = "running"
    /\ gl' = DisableVertexAttribArray(Begin(gl), a.index)
    /\ Return("VertexAttribute::disable", a, 0)
    /\ UNCHANGED << vaos, buffers, attributes, programs >>

\* ------------------------------------------------------------ ShaderProgram
\* What a shader path holds: no file; a file that opens but cannot be read to
\* a String; text with an interior NUL byte; text that is not a valid shader;
\* a valid shader.
Files == {"missing", "unreadable", "nul", "bad", "good"}

\* FileFailure that checks the vertex shader's file only.
FileFailureVertexOnly(vf, ff) ==
    IF vf = "missing" THEN "Failed to open vertex_shader_path"
    ELSE IF vf = "unreadable" THEN "Failed to read vertex shader"
    ELSE "none"

\* Lines 168-182: both files are opened, then both are read; the first failure
\* panics with its message, "none" when both sources are in memory.
FileFailure(vf, ff) ==
    IF vf = "missing" THEN "Failed to open vertex_shader_path"
    ELSE IF ff = "missing" THEN "Failed to open fragment_shader_path"
    ELSE IF vf = "unreadable" THEN "Failed to read vertex shader"
    ELSE IF ff = "unreadable" THEN "Failed to read fragment shader"
    ELSE "none"

\* CString::new(src): an error on an interior NUL byte, which unwrap() panics on.
CStringFails(src) == src = "nul"

\* Lines 185-188, 190-193: one stage is created, given its source and compiled.
CompileStage(g, stage, src) ==
    CompileShader(ShaderSource(CreateShader(g, stage), g.nextObject, src), g.nextObject)

\* Lines 196-200: both stages attached, the program linked, both stages deleted.
LinkStages(g, program, vs, fs, linkOk, utab) ==
    DeleteShader(
        DeleteShader(
            LinkProgram(AttachShader(AttachShader(g, program, vs), program, fs),
                        program, linkOk, utab),
            vs),
        fs)

ProgramNew(vf, ff, linkOk, utab) ==
    LET name == "ShaderProgram::new"
        arg == << vf, ff >>
        g0 == Begin(gl)
        vs == g0.nextObject
        fs == vs + 1
        ph == fs + 1
    IN  /\ status = "running"
        /\ Cardinality(DOMAIN programs) < MaxPrograms
        /\ UNCHANGED << vaos, buffers, attributes >>
        /\ IF FileFailure(vf, ff) # "none"
           THEN /\ gl' = g0
                /\ programs' = programs
                /\ Panic(name, 0, arg, FileFailure(vf, ff))
           ELSE IF CStringFails(vf)
           THEN /\ gl' = CreateShader(g0, "VERTEX_SHADER")
                /\ programs' = programs
                /\ Panic(name, 0, arg, "NulError")
           ELSE IF CStringFails(ff)
           THEN /\ gl' = CreateShader(CompileStage(g0, "VERTEX_SHADER", vf),
                                      "FRAGMENT_SHADER")
                /\ programs' = programs
                /\ Panic(name, 0, arg, "NulError")
           ELSE /\ gl' = LinkStages(
                            CreateProgram(
                                CompileStage(CompileStage(g0, "VERTEX_SHADER", vf),
                                             "FRAGMENT_SHADER", ff)),
                            ph, vs, fs, linkOk, utab)
                /\ programs' = Insert(programs, ph, << >>)
                /\ Return(name, ph, arg)

ProgramBind(p) ==
    /\ status = "running"
    /\ gl' = UseProgram(Begin(gl), p)
    /\ Return("ShaderProgram::bind", p, 0)
    /\ UNCHANGED << vaos, buffers, attributes, programs >>

\* An associated function: there is no self.
ProgramUnbind ==
    /\ status = "running"
    /\ gl' = UseProgram(Begin(gl), 0)
    /\ Return("ShaderProgram::unbind", 0, 0)
    /\ UNCHANGED << vaos, buffers, attributes, programs >>

\* The uniform names a caller passes; NulName has an interior NUL byte.
NulName == "nul"
Names == {"transform", "tint", NulName}

\* CreateUniform without the test of the location's sign.
CreateUniformUnchecked(p, uniform_name) ==
    LET name == "create_uniform"
        g == GetUniformLocation(Begin(gl), p, uniform_name)
        uniform_location == UniformLocation(gl, p, uniform_name)
    IN  /\ status = "running"
        /\ UNCHANGED << vaos, buffers, attributes >>
        /\ IF CStringFails(uniform_name)
           THEN /\ gl' = Begin(gl)
                /\ programs' = programs
                /\ Panic(name, p, uniform_name, "NulError")
           ELSE /\ gl' = g
                /\ programs' = [programs EXCEPT ![p] = Insert(@, uniform_name, uniform_location)]
                /\ Return(name, p, uniform_name)

CreateUniform(p, uniform_name) ==
    LET name == "create_uniform"
        g == GetUniformLocation(Begin(gl), p, uniform_name)
        uniform_location == UniformLocation(gl, p, uniform_name)
    IN  /\ status = "running"
        /\ UNCHANGED << vaos, buffers, attributes >>
        /\ IF CStringFails(uniform_name)
           THEN /\ gl' = Begin(gl)
                /\ programs' = programs
                /\ Panic(name, p, uniform_name, "NulError")
           ELSE IF uniform_location < 0
           THEN /\ gl' = g
                /\ programs' = programs
                /\ Panic(name, p, uniform_name, "Cannot locate uniform")
           ELSE /\ gl' = g
                /\ programs' = [programs EXCEPT ![p] = Insert(@, uniform_name, uniform_location)]
                /\ Return(name, p, uniform_name)

\* cgmath::Matrix4<f32>: four columns x, y, z, w of four floats each.
Identity == << <<1, 0, 0, 0>>, <<0, 1, 0, 0>>, <<0, 0, 1, 0>>, <<0, 0, 0, 1>> >>
Translation == << <<1, 0, 0, 0>>, <<0, 1, 0, 0>>, <<0, 0, 1, 0>>, <<2, 3, 4, 1>> >>
Matrices == {Identity, Translation}

\* matrix.as_ptr(): the sixteen floats the pointer leads to, column after column.
AsPtr(matrix) == matrix[1] \o matrix[2] \o matrix[3] \o matrix[4]

\* SetMatrix4fvUniform looking the name up with a default
\* (uniform_ids.get(name).unwrap_or(&-1)) instead of indexing.
SetMatrix4fvUniformOrDefault(p, uniform_name, matrix) ==
    LET name == "set_matrix4fv_uniform"
        arg == << uniform_name, matrix >>
        location == IF uniform_name \in DOMAIN programs[p]
                    THEN programs[p][uniform_name] ELSE -1
    IN  /\ status = "running"
        /\ UNCHANGED << vaos, buffers, attributes, programs >>
        /\ gl' = UniformMatrix4fv(Begin(gl), location, 1, FALSE, AsPtr(matrix))
        /\ Return(name, p, arg)

\* self.uniform_ids[uniform_name] is evaluated first, as an argument of the
\* call: HashMap's Index panics on a missing key.
SetMatrix4fvUniform(p, uniform_name, matrix) ==
    LET name == "set_matrix4fv_uniform"
        arg == << uniform_name, matrix >>
    IN  /\ status = "running"
        /\ UNCHANGED << vaos, buffers, attributes, programs >>
        /\ IF uniform_name \notin DOMAIN programs[p]
           THEN /\ gl' = Begin(gl)
                /\ Panic(name, p, arg, "missing key")
           ELSE /\ gl' = UniformMatrix4fv(Begin(gl), programs[p][uniform_name], 1,
                                          FALSE, AsPtr(matrix))
                /\ Return(name, p, arg)

\* ------------------------------------------------------------ specifications
VaoOps ==
    \/ VaoNew
    \/ \E v \in vaos : VaoBind(v)
    \/ \E v \in vaos : VaoUnbind(v)

BufferBindOps ==
    \/ \E t \in Targets, u \in Usages : BufferNew(t, u)
    \/ \E b \in buffers : BufferBind(b)
    \/ \E b \in buffers : BufferUnbind(b)

BufferStoreOps ==
    \/ \E b \in buffers, d \in F32Arrays : StoreF32Data(b, d)
    \/ \E b \in buffers, d \in I32Arrays : StoreI32Data(b, d)

\* The uniforms a shader source may declare, in declaration order.
Declared == << "transform", "tint" >>

\* The locations a linker assigns when the uniforms in active survive
\* optimisation: consecutive from 0 in declaration order.
LocationsOf(active) ==
    [n \in active |->
        Cardinality({m \in active :
            \E i, j \in DOMAIN Declared : i < j /\ Declared[i] = m /\ Declared[j] = n})]

UniformTables == {LocationsOf(active) : active \in SUBSET (Names \ {NulName})}

ProgramBindOps ==
    \/ \E p \in DOMAIN programs : ProgramBind(p)
    \/ ProgramUnbind

\* Binding: every kind of handle, made and bound in any order.
NextBind ==
    \/ VaoOps
    \/ BufferBindOps
    \/ ProgramNew("good", "good", TRUE, LocationsOf({"transform"}))
    \/ ProgramBindOps

SpecBind == Init /\ [][NextBind]_vars

\* The buffers of an indexed mesh: a static vertex buffer (the doc example's
\* arguments) and a dynamic index buffer.
StoreKinds == {<< "ARRAY_BUFFER", "STATIC_DRAW" >>,
               << "ELEMENT_ARRAY_BUFFER", "DYNAMIC_DRAW" >>}

\* Uploads: buffers made, bound, unbound and filled in any order.
NextStore ==
    \/ \E k \in StoreKinds : BufferNew(k[1], k[2])
    \/ \E b \in buffers : BufferBind(b)
    \/ \E b \in buffers : BufferUnbind(b)
    \/ BufferStoreOps

SpecStore == Init /\ [][NextStore]_vars

\* The layouts a caller declares for a slot.
Layouts == {<< 3, "FLOAT", FALSE, 12, 0 >>, << 4, "UNSIGNED_BYTE", TRUE, 4, 0 >>}

\* Attributes: slots declared and toggled, array buffers bound in between.
NextAttribute ==
    \/ BufferNew("ARRAY_BUFFER", "STATIC_DRAW")
    \/ \E b \in buffers : BufferBind(b)
    \/ \E b \in buffers : BufferUnbind(b)
    \/ \E i \in 0..MaxSlot, l \in Layouts :
          AttributeNew(i, l[1], l[2], l[3], l[4], l[5])
    \/ \E a \in attributes : AttributeEnable(a)
    \/ \E a \in attributes : AttributeDisable(a)

SpecAttribute == Init /\ [][NextAttribute]_vars

\* Shader programs: built from any pair of files, bound, uniforms registered
\* and set.
NextShader ==
    \/ \E vf, ff \in Files, l \in BOOLEAN, t \in UniformTables : ProgramNew(vf, ff, l, t)
    \/ ProgramBindOps
    \/ \E p \in DOMAIN programs, n \in Names : CreateUniform(p, n)
    \/ \E p \in DOMAIN programs, n \in Names, m \in Matrices : SetMatrix4fvUniform(p, n, m)

SpecShader == Init /\ [][NextShader]_vars

Next == NextBind \/ NextStore \/ NextAttribute \/ NextShader

Spec == Init /\ [][Next]_vars

\* ------------------------------------------------------------ properties
\* The driver entry points an operation called, in order.
Fns(calls) == [i \in DOMAIN calls |-> calls[i].fn]

\* The context-global binding points other than the buffer targets.
OtherBindings(g) == << g.vertexArray, g.program >>

StoreOps == {"store_f32_data", "store_i32_data"}

\* C1: BufferObject::new changes no binding point and returns a handle whose
\* id is bound nowhere; bind() on a handle then leaves the binding point of
\* the handle's target equal to the handle's id, whatever was bound there,
\* and leaves every other target's binding point, the vertex-array binding
\* and the active program as they were.
C1_NewThenBind ==
    [][ /\ op'.name = "BufferObject::new" =>
            /\ gl'.buffer = gl.buffer
            /\ OtherBindings(gl') = OtherBindings(gl)
            /\ \A t \in Targets : gl.buffer[t] # op'.self.id
        /\ op'.name = "BufferObject::bind" =>
            /\ gl'.buffer[op'.self.type] = op'.self.id
            /\ \A t \in Targets \ {op'.self.type} : gl'.buffer[t] = gl.buffer[t]
            /\ OtherBindings(gl') = OtherBindings(gl) ]_vars

\* The second buffer made was bound last, on the target of the first buffer,
\* which was bound before the second existed, with a vertex array and a
\* program bound meanwhile.
C1_Witness ==
    /\ op.name = "BufferObject::bind"
    /\ op.self.id = 2
    /\ gl.buffer[op.self.type] = 2
    /\ [id |-> 1, type |-> op.self.type, usage |-> op.self.usage] \in buffers
    /\ gl.vertexArray # 0
    /\ gl.program # 0

\* C2: a non-empty upload returns normally, and when the handle is the
\* buffer bound to its target the buffer's store then holds exactly 4 bytes
\* per element, carries the handle's usage hint, and reads back as the data.
C2_UploadReadBack ==
    (op.name \in StoreOps /\ Len(op.arg) > 0) =>
        /\ op.res = "ok"
        /\ gl.buffer[op.self.type] = op.self.id =>
            LET st == gl.store[op.self.id]
            IN  /\ Len(st.bytes) = 4 * Len(op.arg)
                /\ st.usage = op.self.usage
                /\ op.name = "store_f32_data" => ReadBackF32(st.bytes) = op.arg
                /\ op.name = "store_i32_data" => ReadBackI32(st.bytes) = op.arg

\* A two-element i32 upload into the bound dynamic index buffer.
C2_Witness ==
    /\ op.name = "store_i32_data"
    /\ op.arg = << -1, 258 >>
    /\ op.self.usage = "DYNAMIC_DRAW"
    /\ gl.buffer[op.self.type] = op.self.id
    /\ gl.store[op.self.id].bytes = << 255, 255, 255, 255, 2, 1, 0, 0 >>

\* C3: create_uniform panics when the driver's location for the name is
\* negative and then leaves every cache as it was; otherwise it returns with
\* name -> location stored in its own cache, every other entry and every other
\* cache as before.  Every cached location is >= 0.
C3_CreateUniform ==
    [][ /\ op'.name = "create_uniform" =>
            LET p == op'.self
                n == op'.arg
                loc == UniformLocation(gl, p, n)
            IN  IF loc < 0
                THEN /\ status' = "panicked"
                     /\ op'.res # "ok"
                     /\ programs' = programs
                ELSE /\ status' = "running"
                     /\ op'.res = "ok"
                     /\ DOMAIN programs' = DOMAIN programs
                     /\ DOMAIN programs'[p] = DOMAIN programs[p] \cup {n}
                     /\ programs'[p][n] = loc
                     /\ \A m \in DOMAIN programs[p] \ {n} : programs'[p][m] = programs[p][m]
                     /\ \A q \in DOMAIN programs \ {p} : programs'[q] = programs[q]
        /\ \A p \in DOMAIN programs' : \A n \in DOMAIN programs'[p] : programs'[p][n] >= 0
      ]_vars

\* create_uniform panicked on a name the driver does not locate, in a program
\* whose cache already held an entry.
C3_Witness ==
    /\ status = "panicked"
    /\ op.name = "create_uniform"
    /\ op.res = "Cannot locate uniform"
    /\ op.arg = "tint"
    /\ DOMAIN programs[op.self] = {"transform"}

\* C4: set_matrix4fv_uniform on a registered name returns after exactly one
\* driver call, UniformMatrix4fv, with the cached location, count 1, transpose
\* FALSE and the matrix's sixteen floats column by column; on a name that is
\* not in the cache it panics with no driver call.  The caches are unchanged
\* either way.
C4_SetMatrix ==
    [][ op'.name = "set_matrix4fv_uniform" =>
            LET p == op'.self
                n == op'.arg[1]
                m == op'.arg[2]
            IN  /\ programs' = programs
                /\ IF n \in DOMAIN programs[p]
                   THEN /\ op'.res = "ok"
                        /\ status' = "running"
                        /\ Fns(gl'.calls) = << "UniformMatrix4fv" >>
                        /\ gl'.calls[1].a[1] = programs[p][n]
                        /\ gl'.calls[1].a[2] = 1
                        /\ gl'.calls[1].a[3] = FALSE
                        /\ Len(gl'.calls[1].a[4]) = 16
                        /\ \A c, r \in 1..4 : gl'.calls[1].a[4][4 * (c - 1) + r] = m[c][r]
                   ELSE /\ op'.res = "missing key"
                        /\ status' = "panicked"
                        /\ gl'.calls = << >> ]_vars

\* The translation matrix was uploaded to the second registered uniform.
C4_Witness ==
    /\ op.name = "set_matrix4fv_uniform"
    /\ op.res = "ok"
    /\ op.arg = << "tint", Translation >>
    /\ DOMAIN programs[op.self] = {"transform", "tint"}
    /\ gl.calls[1].a[1] = 1
    /\ gl.calls[1].a[4][13] = 2

\* C5: unbind of a Vao sets the vertex-array binding to 0, unbind of a
\* BufferObject the binding point of its target, ShaderProgram::unbind the
\* active program, whichever handle was bound there, and no other binding
\* point changes; so does unbind right after the handle's construction.
C5_Unbind ==
    [][ /\ op'.name = "Vao::unbind" =>
            /\ gl'.vertexArray = 0
            /\ gl'.buffer = gl.buffer
            /\ gl'.program = gl.program
        /\ op'.name = "BufferObject::unbind" =>
            /\ gl'.buffer[op'.self.type] = 0
            /\ \A t \in Targets \ {op'.self.type} : gl'.buffer[t] = gl.buffer[t]
            /\ OtherBindings(gl') = OtherBindings(gl)
        /\ op'.name = "ShaderProgram::unbind" =>
            /\ gl'.program = 0
            /\ gl'.buffer = gl.buffer
            /\ gl'.vertexArray = gl.vertexArray ]_vars

\* A Vao was unbound while a program and a buffer on each target were bound.
C5_Witness ==
    /\ op.name = "Vao::unbind"
    /\ gl.vertexArray = 0
    /\ gl.program # 0
    /\ \A t \in Targets : gl.buffer[t] # 0

\* C6: ShaderProgram::new on a vertex or fragment path that cannot be opened
\* or read panics before any driver call: no shader or program object is
\* created, no name is used up, the active program and every cache stay.
C6_NoPartialConstruction ==
    [][ ( /\ op'.name = "ShaderProgram::new"
          /\ \E i \in 1..2 : op'.arg[i] \in {"missing", "unreadable"} ) =>
            /\ status' = "panicked"
            /\ op'.res \in {"Failed to open vertex_shader_path",
                            "Failed to open fragment_shader_path",
                            "Failed to read vertex shader",
                            "Failed to read fragment shader"}
            /\ gl'.calls = << >>
            /\ gl'.shaders = gl.shaders
            /\ gl'.programs = gl.programs
            /\ gl'.nextObject = gl.nextObject
            /\ gl'.program = gl.program
            /\ programs' = programs ]_vars

\* A second program's fragment shader could not be read while the first
\* program was the active one.
C6_Witness ==
    /\ status = "panicked"
    /\ op.name = "ShaderProgram::new"
    /\ op.arg = << "good", "unreadable" >>
    /\ op.res = "Failed to read fragment shader"
    /\ gl.program # 0
    /\ gl.program \in DOMAIN programs

\* C7: VertexAttribute::new sets its slot's layout to its arguments and
\* leaves every slot's enabled state; enable() and disable() leave the slot
\* enabled and disabled and every layout as it was; no operation changes the
\* enabled state or the layout of a slot other than the one it is called on.
C7_Attribute ==
    [][ /\ op'.name = "VertexAttribute::new" =>
            LET q == gl'.pointer[op'.self.index]
            IN  /\ << q.size, q.type, q.normalized, q.stride, q.pointer >> = op'.arg
                /\ gl'.enabled = gl.enabled
        /\ op'.name = "VertexAttribute::enable" =>
            /\ gl'.enabled[op'.self.index]
            /\ gl'.pointer = gl.pointer
        /\ op'.name = "VertexAttribute::disable" =>
            /\ ~gl'.enabled[op'.self.index]
            /\ gl'.pointer = gl.pointer
        /\ \A s \in 0..MaxSlot :
            (gl'.enabled[s] # gl.enabled[s] \/ gl'.pointer[s] # gl.pointer[s]) =>
                /\ op'.name \in {"VertexAttribute::new", "VertexAttribute::enable",
                                 "VertexAttribute::disable"}
                /\ op'.self.index = s ]_vars

\* Slot 0, declared as three floats with stride 12 and enabled, was disabled
\* again while slot 1 stays enabled with its own layout.
C7_Witness ==
    /\ op.name = "VertexAttribute::disable"
    /\ op.self.index = 0
    /\ ~gl.enabled[0]
    /\ gl.enabled[1]
    /\ gl.pointer[0].size = 3 /\ gl.pointer[0].stride = 12 /\ gl.pointer[0].buffer # 0
    /\ gl.pointer[1].size = 4 /\ gl.pointer[1].normalized

\* C8: whenever both files are readable, ShaderProgram::new returns a wrapper
\* with an empty cache after the same twelve driver calls: a stage created,
\* sourced, compiled, twice; the program created; both stages attached; the
\* link; both stages deleted.
C8_SameCallsAlways ==
    ( /\ op.name = "ShaderProgram::new"
      /\ \A i \in 1..2 : op.arg[i] \notin {"missing", "unreadable"} ) =>
        /\ op.res = "ok"
        /\ Fns(gl.calls) = << "CreateShader", "ShaderSource", "CompileShader",
                              "CreateShader", "ShaderSource", "CompileShader",
                              "CreateProgram", "AttachShader", "AttachShader",
                              "LinkProgram", "DeleteShader", "DeleteShader" >>
        /\ op.self \in DOMAIN programs
        /\ programs[op.self] = << >>

\* C9: an upload of an empty slice panics on the index, before any driver
\* call: every store and every binding point is as before.
C9_EmptyUpload ==
    [][ (op'.name \in StoreOps /\ Len(op'.arg) = 0) =>
            /\ status' = "panicked"
            /\ op'.res = "index out of bounds"
            /\ gl'.calls = << >>
            /\ gl'.store = gl.store
            /\ gl'.buffer = gl.buffer
            /\ OtherBindings(gl') = OtherBindings(gl) ]_vars

\* An empty f32 upload panicked on a bound buffer that holds earlier data.
C9_Witness ==
    /\ status = "panicked"
    /\ op.name = "store_f32_data"
    /\ op.arg = << >>
    /\ gl.buffer[op.self.type] = op.self.id
    /\ Len(gl.store[op.self.id].bytes) = 8

\* C10: an upload through handle a replaces the store of the buffer bound
\* to a's target, whichever buffer that is, and no other store; a store
\* changes only in an upload made while its buffer is bound to the uploading
\* handle's target.
C10_UploadGoesToBound ==
    [][ /\ (op'.name \in StoreOps /\ op'.res = "ok") =>
            LET bound == gl.buffer[op'.self.type]
            IN  /\ bound # 0 =>
                    /\ gl'.store[bound].bytes = BytesOf(op'.arg)
                    /\ gl'.store[bound].usage = op'.self.usage
                /\ \A b \in DOMAIN gl.store \ {bound} : gl'.store[b] = gl.store[b]
        /\ \A b \in DOMAIN gl.store :
            gl'.store[b] # gl.store[b] =>
                /\ op'.name \in StoreOps
                /\ gl.buffer[op'.self.type] = b ]_vars

\* a.bind(); b.bind(); a.store_f32_data(data): the data is in b's store and
\* a's store is still empty.
C10_Witness ==
    /\ op.name = "store_f32_data"
    /\ op.res = "ok"
    /\ op.self.id = 1
    /\ gl.buffer[op.self.type] = 2
    /\ gl.store[2].bytes = BytesOf(op.arg)
    /\ gl.store[1] = NoStore
====
